---- MODULE Spec2Model ----
(***************************************************************************)
(* Process-mining dashboard front end: the upload / column-mapping /       *)
(* session workflow, the session store of App, the filter panel and the    *)
(* four fetching views (graph, metrics, bottlenecks, variants).            *)
(*                                                                         *)
(* React state is modelled as variables.  One action is one event-loop     *)
(* task: a UI event handler, or the continuation of an async function      *)
(* after an await (a network completion or a timer).  All setState calls   *)
(* of one task are committed in one render (automatic batching), and the   *)
(* effects that the committed render triggers (useEffect with changed      *)
(* dependencies, mounts and unmounts) are part of the same action.         *)
(*                                                                         *)
(* Nullable values are sets with at most one element: Null is {} and       *)
(* Some(x) is {x}.  Session ids and temp ids are opaque strings issued by  *)
(* the backend, unique per upload; they are modelled as 1, 2, ...          *)
(* Column names are sequences of one-character strings, so that the        *)
(* case-insensitive substring match of the heuristic is computed.          *)
(***************************************************************************)
EXTENDS Integers, Sequences, FiniteSets, TLC

VARIABLES
    appVariant,        \* "workflow": frontend/src/App.tsx; "single": the one-page App
    \* ---- App
    sessionId, uploadStats, selectedVariant, selectedNode,
    activeFilters, filterLoading, filterTimers, activeTab, workflowStep,
    \* ---- FileUpload (preview variant)
    isUploading, logs, previewData, previewInFlight,
    \* ---- ColumnMapper
    caseIdColumn, activityColumn, timestampColumn, isLoading, error, submitInFlight,
    \* ---- FilterSidebar
    dateStart, dateEnd, excludedActivities,
    \* ---- the views: ProcessGraph, MetricsPanel, BottleneckList, VariantList
    viewData, loading, viewError, viewInFlight,
    cyRef,             \* ProcessGraph's cyRef.current holds a Cytoscape instance
    \* ---- the backend and the user, as far as the front end depends on them
    nextTempId, nextSessionId, drops,
    \* ---- history: the temp ids a session was created from, the temp ids of
    \* cancelled previews, the last task that ran and what it was given
    confirmedTempIds, cancelledTempIds, lastEvent

appVars    == <<sessionId, uploadStats, selectedVariant, selectedNode,
                activeFilters, filterLoading, filterTimers, activeTab, workflowStep>>
uploadVars == <<isUploading, logs, previewData, previewInFlight>>
mapperVars == <<caseIdColumn, activityColumn, timestampColumn, isLoading, error,
                submitInFlight>>
panelVars  == <<dateStart, dateEnd, excludedActivities>>
viewVars   == <<viewData, loading, viewError, viewInFlight, cyRef>>
envVars    == <<nextTempId, nextSessionId, drops, confirmedTempIds, cancelledTempIds>>

vars == <<appVariant, appVars, uploadVars, mapperVars, panelVars, viewVars, envVars,
          lastEvent>>

----------------------------------------------------------------------------
(* Bounds *)

\* sessions the backend creates in one run
MaxSessions == 2
\* files dropped in one run
MaxDrops == 2
\* columns of a dropped file, where every header is enumerated
MaxColumns == 3

----------------------------------------------------------------------------
(* Nullable values and JavaScript's || on strings *)

Null == {}
Some(x) == {x}
Get(o) == CHOOSE x \in o : TRUE

\* a || b on strings: the empty string is falsy
OrStr(a, b) == IF a # "" THEN a ELSE b

----------------------------------------------------------------------------
(* Column names and the auto-detection heuristic of ColumnMapper *)

Str_case_id   == <<"c","a","s","e","_","i","d">>
Str_caseid    == <<"c","a","s","e","i","d">>
Str_case      == <<"c","a","s","e">>
Str_id        == <<"i","d">>
Str_trace_id  == <<"t","r","a","c","e","_","i","d">>
Str_traceid   == <<"t","r","a","c","e","i","d">>
Str_activity  == <<"a","c","t","i","v","i","t","y">>
Str_event     == <<"e","v","e","n","t">>
Str_action    == <<"a","c","t","i","o","n">>
Str_step      == <<"s","t","e","p">>
Str_task      == <<"t","a","s","k">>
Str_timestamp == <<"t","i","m","e","s","t","a","m","p">>
Str_time      == <<"t","i","m","e">>
Str_date      == <<"d","a","t","e">>
Str_datetime  == <<"d","a","t","e","t","i","m","e">>
Str_created   == <<"c","r","e","a","t","e","d">>
Str_start     == <<"s","t","a","r","t">>

casePatterns == <<Str_case_id, Str_caseid, Str_case, Str_id, Str_trace_id, Str_traceid>>
activityPatterns == <<Str_activity, Str_event, Str_action, Str_step, Str_task>>
timestampPatterns == <<Str_timestamp, Str_time, Str_date, Str_datetime, Str_created,
                       Str_start>>

\* the column names the modelled files use
Col_CaseID   == <<"C","a","s","e","I","D">>
Col_Activity == <<"A","c","t","i","v","i","t","y">>
Col_Time     == <<"T","i","m","e">>
Col_x        == <<"x">>
Col_ID         == <<"I","D">>
Col_Event_ID   == <<"E","v","e","n","t","_","I","D">>
Col_Start_Date == <<"S","t","a","r","t","_","D","a","t","e">>
Col_Step       == <<"s","t","e","p">>

\* the column names a header is drawn from, and the headers of up to
\* MaxColumns columns
ColumnNames == {Col_CaseID, Col_Activity, Col_Time, Col_x, Col_ID, Col_Event_ID,
                Col_Start_Date, Col_Step}

Headers == UNION { [1..n -> ColumnNames] : n \in 0..MaxColumns }

\* the unset value of a <select>: the empty string
Unset == <<>>

\* String.prototype.toLowerCase, on the alphabet the column names use
UpperLetters == <<"A","B","C","D","E","F","G","H","I","J","K","L","M",
                  "N","O","P","Q","R","S","T","U","V","W","X","Y","Z">>
LowerLetters == <<"a","b","c","d","e","f","g","h","i","j","k","l","m",
                  "n","o","p","q","r","s","t","u","v","w","x","y","z">>

LowerChar(c) ==
    IF \E i \in 1..Len(UpperLetters) : UpperLetters[i] = c
    THEN LowerLetters[CHOOSE i \in 1..Len(UpperLetters) : UpperLetters[i] = c]
    ELSE c

toLowerCase(s) == [i \in 1..Len(s) |-> LowerChar(s[i])]

\* String.prototype.includes
includes(s, p) ==
    \E i \in 0..(Len(s) - Len(p)) : SubSeq(s, i + 1, i + Len(p)) = p

\* findIndex returning the last column that includes the pattern
findIndex_Last(lowerColumns, pattern) ==
    LET hits == {i \in 1..Len(lowerColumns) : includes(lowerColumns[i], pattern)}
    IN  IF hits = {} THEN 0 ELSE CHOOSE i \in hits : \A j \in hits : i >= j

\* Array.prototype.findIndex over lowerColumns for one pattern; 0 stands for -1
findIndex(lowerColumns, pattern) ==
    LET hits == {i \in 1..Len(lowerColumns) : includes(lowerColumns[i], pattern)}
    IN  IF hits = {} THEN 0 ELSE CHOOSE i \in hits : \A j \in hits : i <= j

\* one role's loop: the first pattern, in list order, that some column includes
\* decides; `current` is the role's state as the initializer's closure sees it
RECURSIVE detectFrom(_, _, _, _)
detectFrom(columns, patterns, k, current) ==
    IF k > Len(patterns) THEN current
    ELSE LET idx == findIndex([i \in 1..Len(columns) |-> toLowerCase(columns[i])],
                              patterns[k])
         IN  IF idx # 0 /\ current = Unset
             THEN columns[idx]
             ELSE detectFrom(columns, patterns, k + 1, current)

autoDetect(columns, patterns) == detectFrom(columns, patterns, 1, Unset)

----------------------------------------------------------------------------
(* What the backend can answer *)

\* the files the user drops, as the preview endpoint reads them: one whose
\* case and timestamp columns the heuristic finds but not its activity column,
\* one with a single column, no match and no rows, and one whose three columns
\* are all found
PartialFile  == [columns |-> <<Col_CaseID, Col_Time>>, preview_rows |-> <<"row">>]
EmptyFile    == [columns |-> <<Col_x>>, preview_rows |-> <<>>]
CompleteFile == [columns |-> <<Col_CaseID, Col_Activity, Col_Time>>,
                 preview_rows |-> <<"row">>]

\* a preview response: {columns, preview_rows, row_count, temp_id}
PreviewResponse(file, tempId) ==
    [columns |-> file.columns, preview_rows |-> file.preview_rows,
     row_count |-> Len(file.preview_rows), temp_id |-> tempId]

PreviewResponses(tempId) ==
    { PreviewResponse(file, tempId) : file \in {PartialFile, EmptyFile} }

\* a failed request as the catch block sees it: error.response.data.detail (the
\* empty string when the payload carries none) and error.message
TransportErrors ==
    { [http |-> TRUE, detail |-> "", message |-> "Request failed with status code 500"],
      [http |-> TRUE, detail |-> "Invalid file",
       message |-> "Request failed with status code 400"],
      [http |-> FALSE, detail |-> "", message |-> "Network Error"] }

\* the activities of an uploaded log
Activities == {"A", "B"}

\* an upload response: {session_id, case_count, event_count, activities}
UploadResponse(sid) ==
    [session_id |-> sid, case_count |-> 1, event_count |-> 2, activities |-> Activities]

\* the four fetching views, named as the tabs are
Views == {"graph", "metrics", "bottlenecks", "variants"}

\* a fetched payload of the metrics and the two lists: the session it was
\* computed for and the number of items (bottlenecks, variants) it holds
Payloads(sid) == { [session_id |-> sid, items |-> n] : n \in {0, 1} }

\* GraphData: the nodes {data: {id, label, frequency, isSpecial?}} and the
\* edges {data: {source, target, weight}} of a discover response
StartNode == [id |-> "__start__", label |-> "Start", frequency |-> 0, isSpecial |-> TRUE]
ActivityNode == [id |-> "A", label |-> "A", frequency |-> 5, isSpecial |-> FALSE]
GraphNodes == {StartNode, ActivityNode}
Edge(source, target) == [source |-> source, target |-> target, weight |-> 1]

\* the graphs a response can carry: none, a start node with an activity, and
\* the same with an edge to an activity "B" that is no node
EmptyGraph == [nodes |-> {}, edges |-> {}]
SmallGraph == [nodes |-> GraphNodes, edges |-> {Edge("__start__", "A")}]
DanglingGraph == [nodes |-> GraphNodes, edges |-> {Edge("__start__", "A"), Edge("A", "B")}]
WellFormedGraphs == {EmptyGraph, SmallGraph}
Graphs == WellFormedGraphs \cup {DanglingGraph}

\* a fetched graph, with the session it was computed for
GraphPayloads(sid, G) ==
    { [session_id |-> sid, nodes |-> g.nodes, edges |-> g.edges] : g \in G }

\* a variant as a row passes it: a string[] object, with its identity (every
\* response, parsed anew, yields new arrays) and its activity sequence
VariantSeqs == { <<"A">>, <<"A", "B">> }
ArrayRefs == {"r1", "r2"}
VariantRows == { [ref |-> r, seq |-> q] : r \in ArrayRefs, q \in VariantSeqs }

LogEntry(type, message, arg) == [type |-> type, message |-> message, arg |-> arg]

----------------------------------------------------------------------------
(* Which components the App renders *)

\* <FileUpload>: always in the one-page App, only on the upload stage of the
\* workflow App
FileUploadMounted(step) == appVariant = "single" \/ step = "upload"

\* a view: always in the one-page App; in the workflow App the active tab's view,
\* on the dashboard stage
ViewMounted(v, step, tab) ==
    appVariant = "single" \/ (step = "dashboard" /\ tab = v)

\* {uploadStats && <FilterSidebar/>}
SidebarMounted(stats, step) ==
    stats # Null /\ (appVariant = "single" \/ step = "dashboard")

\* {previewData && <ColumnMapper/>} inside FileUpload
MapperMounted == previewData # Null

----------------------------------------------------------------------------
(* The fetch effect of a view: useEffect(..., [sessionId]) *)

InitialView == [data |-> Null, loading |-> FALSE, error |-> Null, inflight |-> {}]

ViewState(v) == [data |-> viewData[v], loading |-> loading[v],
                 error |-> viewError[v], inflight |-> viewInFlight[v]]

\* the effect body up to its await: without a session the data is cleared and
\* nothing else; with one, loading is set, the error cleared, a request sent
RunEffect(st, sid) ==
    IF sid = Null
    THEN [st EXCEPT !.data = Null]
    ELSE [st EXCEPT !.loading = TRUE, !.error = Null, !.inflight = @ \cup sid]

\* a view after a commit that makes the session newSid on stage newStep, tab newTab
NextView(v, newSid, newStep, newTab) ==
    IF ~ViewMounted(v, newStep, newTab) THEN InitialView
    ELSE IF ~ViewMounted(v, workflowStep, activeTab)
         THEN RunEffect(InitialView, newSid)
    ELSE IF newSid # sessionId THEN RunEffect(ViewState(v), newSid)
    ELSE ViewState(v)

CommitViews(newSid, newStep, newTab) ==
    LET nv == [v \in Views |-> NextView(v, newSid, newStep, newTab)]
    IN  /\ viewData' = [v \in Views |-> nv[v].data]
        /\ loading' = [v \in Views |-> nv[v].loading]
        /\ viewError' = [v \in Views |-> nv[v].error]
        /\ viewInFlight' = [v \in Views |-> nv[v].inflight]
        \* the ref lives as long as the ProcessGraph it belongs to
        /\ cyRef' = (/\ cyRef
                     /\ ViewMounted("graph", workflowStep, activeTab)
                     /\ ViewMounted("graph", newStep, newTab))

\* the filter panel's local state after a commit: kept while the panel stays
\* mounted, initial when it is mounted anew or gone
CommitPanel(newStats, newStep) ==
    IF SidebarMounted(newStats, newStep) /\ SidebarMounted(uploadStats, workflowStep)
    THEN UNCHANGED panelVars
    ELSE /\ dateStart' = ""
         /\ dateEnd' = ""
         /\ excludedActivities' = {}

\* lastEvent: the task's name, the failure it was given, for a task that
\* replaces or destroys the session, which of the session's dependents held a
\* value when it started, and for a click on a variant row its argument and
\* the selection before it
NoErr == [http |-> FALSE, detail |-> "", message |-> ""]
Event(name) == [name |-> name, err |-> NoErr, had |-> {}, arg |-> Null, prior |-> Null]
EventErr(name, e) == [name |-> name, err |-> e, had |-> {}, arg |-> Null, prior |-> Null]
Held ==
    {n \in {"sessionId"} : sessionId # Null}
    \cup {n \in {"activeFilters"} : activeFilters # Null}
    \cup {n \in {"selectedNode"} : selectedNode # Null}
    \cup {n \in {"selectedVariant"} : selectedVariant # Null}
EventHad(name) == [name |-> name, err |-> NoErr, had |-> Held, arg |-> Null, prior |-> Null]
\* a click on a variant row: the variant it passed and the selection it found
EventSelect(name, variant) ==
    [name |-> name, err |-> NoErr, had |-> {}, arg |-> Some(variant),
     prior |-> selectedVariant]
\* a tap on a node of the graph: the node's data and the selection it found
EventTap(name, node) ==
    [name |-> name, err |-> NoErr, had |-> {}, arg |-> Some(node), prior |-> selectedNode]
\* a handler of the graph's layout: whether dagre threw, and the calls it
\* made on the Cytoscape instance, in order
EventCalls(name, dagreFails, calls) ==
    [name |-> name, err |-> NoErr, had |-> {}, arg |-> Some(dagreFails),
     prior |-> Some(calls)]
\* a click on a step of the stepper: the step clicked, and what was held
EventStep(name, step) ==
    [name |-> name, err |-> NoErr, had |-> Held, arg |-> Some(step), prior |-> Null]
\* a click on an activity's checkbox: the activity and the exclusion set it found
EventToggle(name, activity) ==
    [name |-> name, err |-> NoErr, had |-> {}, arg |-> Some(activity),
     prior |-> Some(excludedActivities)]

----------------------------------------------------------------------------
(* Initial state: everything as useState initialises it *)

Init ==
    /\ appVariant \in {"workflow", "single"}
    /\ sessionId = Null
    /\ uploadStats = Null
    /\ selectedVariant = Null
    /\ selectedNode = Null
    /\ activeFilters = Null
    /\ filterLoading = FALSE
    /\ filterTimers = 0
    /\ activeTab = "graph"
    /\ workflowStep = "upload"
    /\ isUploading = FALSE
    /\ logs = <<>>
    /\ previewData = Null
    /\ previewInFlight = 0
    /\ caseIdColumn = Unset
    /\ activityColumn = Unset
    /\ timestampColumn = Unset
    /\ isLoading = FALSE
    /\ error = Null
    /\ submitInFlight = Null
    /\ dateStart = ""
    /\ dateEnd = ""
    /\ excludedActivities = {}
    /\ viewData = [v \in Views |-> Null]
    /\ loading = [v \in Views |-> FALSE]
    /\ viewError = [v \in Views |-> Null]
    /\ viewInFlight = [v \in Views |-> {}]
    /\ cyRef = FALSE
    /\ nextTempId = 1
    /\ nextSessionId = 1
    /\ drops = 0
    /\ confirmedTempIds = {}
    /\ cancelledTempIds = {}
    /\ lastEvent = Event("init")

----------------------------------------------------------------------------
(* App: the session store *)

\* handleUploadSuccess without its setActiveFilters(null)
handleUploadSuccess_KeepsFilters(data) ==
    /\ sessionId' = Some(data.session_id)
    /\ uploadStats' = Some(data)
    /\ selectedVariant' = Null
    /\ selectedNode' = Null
    /\ workflowStep' = IF appVariant = "workflow" THEN "dashboard" ELSE workflowStep
    /\ activeTab' = IF appVariant = "workflow" THEN "graph" ELSE activeTab
    /\ UNCHANGED <<activeFilters, filterLoading, filterTimers>>

\* handleUploadSuccess(data); the workflow App also moves to the dashboard
handleUploadSuccess(data) ==
    /\ sessionId' = Some(data.session_id)
    /\ uploadStats' = Some(data)
    /\ selectedVariant' = Null
    /\ selectedNode' = Null
    /\ activeFilters' = Null
    /\ workflowStep' = IF appVariant = "workflow" THEN "dashboard" ELSE workflowStep
    /\ activeTab' = IF appVariant = "workflow" THEN "graph" ELSE activeTab
    /\ UNCHANGED <<filterLoading, filterTimers>>

----------------------------------------------------------------------------
(* FileUpload: drop, preview response, mapping complete, mapping cancel *)

\* errorMessage = axiosError.response?.data?.detail || axiosError.message || 'Upload failed'
previewErrorMessage(e) == OrStr(OrStr(e.detail, e.message), "Upload failed")

\* the ColumnMapper's state when it is mounted for `columns`
MountMapper(columns) ==
    /\ caseIdColumn' = autoDetect(columns, casePatterns)
    /\ activityColumn' = autoDetect(columns, activityPatterns)
    /\ timestampColumn' = autoDetect(columns, timestampPatterns)
    /\ isLoading' = FALSE
    /\ error' = Null
    /\ submitInFlight' = Null

\* the ColumnMapper's state is gone with the component
UnmountMapper ==
    /\ caseIdColumn' = Unset
    /\ activityColumn' = Unset
    /\ timestampColumn' = Unset
    /\ isLoading' = FALSE
    /\ error' = Null
    /\ submitInFlight' = Null

\* the dropzone takes a file: useDropzone is disabled only by previewData.
\* While isUploading the root only carries the class pointer-events-none: it
\* ignores the pointer, but it keeps its tab stop and opens the file dialog on
\* Enter or Space, so a second file can be chosen while the first is in flight.
DropzoneEnabled == FileUploadMounted(workflowStep) /\ previewData = Null

\* onDrop up to its await
onDrop ==
    /\ DropzoneEnabled
    /\ drops < MaxDrops
    /\ drops' = drops + 1
    /\ logs' = logs \o << LogEntry("info", "File selected", ""),
                          LogEntry("info", "Uploading for preview...", "") >>
    /\ isUploading' = TRUE
    /\ previewInFlight' = previewInFlight + 1
    /\ lastEvent' = Event("onDrop")
    /\ UNCHANGED <<appVariant, appVars, previewData, mapperVars, panelVars, viewVars,
                   nextTempId, nextSessionId, confirmedTempIds, cancelledTempIds>>

\* onDrop after the await, the preview succeeded: try block, then finally
onDropResolved(resp) ==
    /\ previewInFlight > 0
    /\ previewInFlight' = previewInFlight - 1
    /\ nextTempId' = nextTempId + 1
    /\ logs' = logs \o << LogEntry("success", "File uploaded successfully!", ""),
                          LogEntry("info", "Found columns, rows", ""),
                          LogEntry("info", "Please map your columns below...", "") >>
    /\ previewData' = Some(resp)
    /\ isUploading' = FALSE
    /\ IF MapperMounted THEN UNCHANGED mapperVars ELSE MountMapper(resp.columns)
    /\ lastEvent' = Event("onDropResolved")
    /\ UNCHANGED <<appVariant, appVars, panelVars, viewVars, nextSessionId, drops,
                   confirmedTempIds, cancelledTempIds>>

\* onDrop after the await, the preview failed: catch block, then finally
onDropRejected(e) ==
    /\ previewInFlight > 0
    /\ previewInFlight' = previewInFlight - 1
    /\ logs' = Append(logs, LogEntry("error", "Error: ", previewErrorMessage(e)))
    /\ isUploading' = FALSE
    /\ lastEvent' = EventErr("onDropRejected", e)
    /\ UNCHANGED <<appVariant, appVars, previewData, mapperVars, panelVars, viewVars,
                   envVars>>

\* handleMappingCancel without its setLogs([])
handleMappingCancel_KeepsLogs ==
    /\ MapperMounted
    /\ ~isLoading
    /\ previewData' = Null
    /\ UnmountMapper
    /\ cancelledTempIds' = cancelledTempIds \cup {Get(previewData).temp_id}
    /\ lastEvent' = Event("handleMappingCancel")
    /\ UNCHANGED <<appVariant, appVars, isUploading, logs, previewInFlight, panelVars,
                   viewVars, nextTempId, nextSessionId, drops, confirmedTempIds>>

\* <Button variant="outline" onClick={onCancel} disabled={isLoading}>
CancelEnabled == MapperMounted /\ ~isLoading

\* handleMappingCancel; the Cancel button is disabled while isLoading
handleMappingCancel ==
    /\ CancelEnabled
    /\ previewData' = Null
    /\ logs' = <<>>
    /\ UnmountMapper
    /\ cancelledTempIds' = cancelledTempIds \cup {Get(previewData).temp_id}
    /\ lastEvent' = Event("handleMappingCancel")
    /\ UNCHANGED <<appVariant, appVars, isUploading, previewInFlight, panelVars,
                   viewVars, nextTempId, nextSessionId, drops, confirmedTempIds>>

----------------------------------------------------------------------------
(* ColumnMapper: the three selects, submit and its two outcomes *)

\* isValid without its timestampColumn operand
isValid_IgnoresTimestamp == caseIdColumn # Unset /\ activityColumn # Unset

\* const isValid = caseIdColumn && activityColumn && timestampColumn
isValid == caseIdColumn # Unset /\ activityColumn # Unset /\ timestampColumn # Unset

\* the Start Analysis button disabled by !isValid only
SubmitEnabled_WhileLoading == MapperMounted /\ isValid

\* <Button onClick={handleSubmit} disabled={!isValid || isLoading}>
SubmitEnabled == MapperMounted /\ ~(~isValid \/ isLoading)

\* the options of a <select>: "Select column..." and the columns shown
Options ==
    IF previewData = Null THEN {}
    ELSE {Unset} \cup {Get(previewData).columns[i] :
                          i \in 1..Len(Get(previewData).columns)}

setCaseIdColumn(val) ==
    /\ MapperMounted
    /\ caseIdColumn' = val
    /\ lastEvent' = Event("setCaseIdColumn")
    /\ UNCHANGED <<appVariant, appVars, uploadVars, activityColumn, timestampColumn,
                   isLoading, error, submitInFlight, panelVars, viewVars, envVars>>

setActivityColumn(val) ==
    /\ MapperMounted
    /\ activityColumn' = val
    /\ lastEvent' = Event("setActivityColumn")
    /\ UNCHANGED <<appVariant, appVars, uploadVars, caseIdColumn, timestampColumn,
                   isLoading, error, submitInFlight, panelVars, viewVars, envVars>>

setTimestampColumn(val) ==
    /\ MapperMounted
    /\ timestampColumn' = val
    /\ lastEvent' = Event("setTimestampColumn")
    /\ UNCHANGED <<appVariant, appVars, uploadVars, caseIdColumn, activityColumn,
                   isLoading, error, submitInFlight, panelVars, viewVars, envVars>>

\* handleSubmit up to its await: the request carries temp_id and the three columns
handleSubmit ==
    /\ SubmitEnabled
    /\ isValid
    /\ isLoading' = TRUE
    /\ error' = Null
    /\ submitInFlight' = Some([temp_id |-> Get(previewData).temp_id,
                               case_id_column |-> caseIdColumn,
                               activity_column |-> activityColumn,
                               timestamp_column |-> timestampColumn])
    /\ lastEvent' = Event("handleSubmit")
    /\ UNCHANGED <<appVariant, appVars, uploadVars, caseIdColumn, activityColumn,
                   timestampColumn, panelVars, viewVars, envVars>>

\* handleMappingComplete without its setPreviewData(null)
handleMappingComplete_KeepsPreview(data) ==
    IF appVariant = "workflow"
    THEN /\ previewData' = Null
         /\ logs' = <<>>
         /\ isUploading' = FALSE
         /\ previewInFlight' = 0
    ELSE /\ logs' = logs \o << LogEntry("success", "Analysis complete! Session ID", ""),
                               LogEntry("success", "Cases, Events", "") >>
         /\ UNCHANGED <<previewData, isUploading, previewInFlight>>

\* handleMappingComplete(data), FileUpload's part: two log lines, the preview
\* dropped; in the workflow App the FileUpload is then unmounted with the stage
handleMappingComplete(data) ==
    /\ previewData' = Null
    /\ IF appVariant = "workflow"
       THEN /\ logs' = <<>>
            /\ isUploading' = FALSE
            /\ previewInFlight' = 0
       ELSE /\ logs' = logs \o << LogEntry("success", "Analysis complete! Session ID", ""),
                                  LogEntry("success", "Cases, Events", "") >>
            /\ UNCHANGED <<isUploading, previewInFlight>>

\* handleSubmit after the await, response.ok: onComplete(data), then finally
handleSubmitResolved ==
    /\ submitInFlight # Null
    /\ nextSessionId <= MaxSessions
    /\ LET data == UploadResponse(nextSessionId)
       IN  /\ handleMappingComplete(data)
           /\ handleUploadSuccess(data)
           /\ CommitViews(sessionId', workflowStep', activeTab')
           /\ CommitPanel(uploadStats', workflowStep')
    /\ UnmountMapper
    /\ nextSessionId' = nextSessionId + 1
    /\ confirmedTempIds' = confirmedTempIds \cup {Get(submitInFlight).temp_id}
    /\ lastEvent' = EventHad("handleSubmitResolved")
    /\ UNCHANGED <<appVariant, nextTempId, drops, cancelledTempIds>>

\* the message the catch block stores: data.detail || "Upload failed" for a
\* response that is not ok, err.message for a rejected fetch
submitErrorMessage(e) ==
    IF e.http THEN OrStr(e.detail, "Upload failed") ELSE e.message

\* the failure path with the three selections reset
handleSubmitRejected_ClearsSelections(e) ==
    /\ submitInFlight # Null
    /\ submitInFlight' = Null
    /\ error' = Some(submitErrorMessage(e))
    /\ isLoading' = FALSE
    /\ caseIdColumn' = Unset
    /\ activityColumn' = Unset
    /\ timestampColumn' = Unset
    /\ lastEvent' = EventErr("handleSubmitRejected", e)
    /\ UNCHANGED <<appVariant, appVars, uploadVars, panelVars, viewVars, envVars>>

\* handleSubmit after the await, the request failed: catch block, then finally
handleSubmitRejected(e) ==
    /\ submitInFlight # Null
    /\ submitInFlight' = Null
    /\ error' = Some(submitErrorMessage(e))
    /\ isLoading' = FALSE
    /\ lastEvent' = EventErr("handleSubmitRejected", e)
    /\ UNCHANGED <<appVariant, appVars, uploadVars, caseIdColumn, activityColumn,
                   timestampColumn, panelVars, viewVars, envVars>>

----------------------------------------------------------------------------
(* App: selections, filters, reset, navigation *)

\* elements.length, bottlenecks.length, variants.length: the state before the
\* first response ([] or null) has no items
ItemCount(v) ==
    IF viewData[v] = Null THEN 0
    ELSE IF v = "graph"
         THEN Cardinality(Get(viewData[v]).nodes) + Cardinality(Get(viewData[v]).edges)
         ELSE Get(viewData[v]).items

\* const elements = graphData ? [...graphData.nodes, ...graphData.edges] : []
elements ==
    IF viewData["graph"] = Null THEN EmptyGraph
    ELSE [nodes |-> Get(viewData["graph"]).nodes, edges |-> Get(viewData["graph"]).edges]

\* ProcessGraph renders four independent conditionals, each its own block
GraphShown ==
    {d \in {"loading"} : loading["graph"]}
    \cup {d \in {"error"} : viewError["graph"] # Null}
    \cup {d \in {"prompt"} : sessionId = Null /\ ~loading["graph"]}
    \cup {d \in {"populated"} : /\ sessionId # Null
                                /\ ~loading["graph"]
                                /\ viewError["graph"] = Null
                                /\ ItemCount("graph") > 0}

\* MetricsPanel, BottleneckList and VariantList return at the first condition
\* that holds; MetricsPanel returns null without metrics and has no empty
\* branch, the two lists show "No ... found" for an empty list
ReturnShown(v) ==
    IF sessionId = Null THEN {"prompt"}
    ELSE IF loading[v] THEN {"loading"}
    ELSE IF viewError[v] # Null THEN {"error"}
    ELSE IF v = "metrics" THEN (IF viewData[v] = Null THEN {} ELSE {"populated"})
    ELSE IF ItemCount(v) = 0 THEN {"empty"}
    ELSE {"populated"}

\* which of prompt, loading, error, empty and populated a view displays
Shown(v) == IF v = "graph" THEN GraphShown ELSE ReturnShown(v)

\* a view shows populated content
Populated(v) ==
    /\ ViewMounted(v, workflowStep, activeTab)
    /\ "populated" \in Shown(v)

\* the comparison as variant === selectedVariant: the same array object
sameVariant_ByReference(variant, selected) == variant.ref = selected.ref

\* variant.length === selectedVariant.length && variant.every((v, i) => v === selectedVariant[i])
sameVariant(variant, selected) ==
    /\ Len(variant.seq) = Len(selected.seq)
    /\ \A i \in 1..Len(variant.seq) : variant.seq[i] = selected.seq[i]

\* handleVariantSelect(variant), raised by a click on a row of the variant list
handleVariantSelect(variant) ==
    /\ Populated("variants")
    /\ selectedVariant' =
          IF selectedVariant # Null /\ sameVariant(variant, Get(selectedVariant))
          THEN Null
          ELSE Some(variant)
    /\ lastEvent' = EventSelect("handleVariantSelect", variant)
    /\ UNCHANGED <<appVariant, sessionId, uploadStats, selectedNode, activeFilters,
                   filterLoading, filterTimers, activeTab, workflowStep, uploadVars,
                   mapperVars, panelVars, viewVars, envVars>>

\* App.handleNodeSelect(nodeData): setSelectedNode(nodeData)
handleNodeSelect(nodeData) == selectedNode' = Some(nodeData)

\* the tap handler passing every node on
tap_SelectsSpecial(node) ==
    /\ Populated("graph")
    /\ node \in elements.nodes
    /\ handleNodeSelect([id |-> node.id, label |-> node.label, frequency |-> node.frequency])
    /\ lastEvent' = EventTap("tap", node)
    /\ UNCHANGED <<appVariant, sessionId, uploadStats, selectedVariant, activeFilters,
                   filterLoading, filterTimers, activeTab, workflowStep, uploadVars,
                   mapperVars, panelVars, viewVars, envVars>>

\* cy.on("tap", "node", ...): a tap on a node of the rendered graph; a node
\* that is not special is passed on to onNodeSelect as {id, label, frequency}
tap(node) ==
    /\ Populated("graph")
    /\ node \in elements.nodes
    /\ IF ~node.isSpecial
       THEN handleNodeSelect([id |-> node.id, label |-> node.label,
                              frequency |-> node.frequency])
       ELSE UNCHANGED selectedNode
    /\ lastEvent' = EventTap("tap", node)
    /\ UNCHANGED <<appVariant, sessionId, uploadStats, selectedVariant, activeFilters,
                   filterLoading, filterTimers, activeTab, workflowStep, uploadVars,
                   mapperVars, panelVars, viewVars, envVars>>

\* the layout calls of a handler: dagre, and breadthfirst when dagre throws
layoutCalls(dagreFails) ==
    IF dagreFails THEN <<"dagre", "breadthfirst">> ELSE <<"dagre">>

\* the cy.ready callback that setCytoscape registers on the instance
cyReady(dagreFails) ==
    /\ Populated("graph")
    /\ lastEvent' = EventCalls("cy.ready", dagreFails, layoutCalls(dagreFails))
    /\ UNCHANGED <<appVariant, appVars, uploadVars, mapperVars, panelVars, viewVars,
                   envVars>>

\* ProcessGraph.handleReset with the fit inside the try block
ProcessGraph_handleReset_FitInTry(dagreFails) ==
    /\ ViewMounted("graph", workflowStep, activeTab)
    /\ lastEvent' = EventCalls("ProcessGraph.handleReset", dagreFails,
                               IF ~cyRef THEN <<>>
                               ELSE IF dagreFails THEN <<"dagre", "breadthfirst">>
                               ELSE <<"dagre", "fit">>)
    /\ UNCHANGED <<appVariant, appVars, uploadVars, mapperVars, panelVars, viewVars,
                   envVars>>

\* ProcessGraph.handleReset, the Reset Layout button: with an instance in the
\* ref, the layout calls and then fit(undefined, 30)
ProcessGraph_handleReset(dagreFails) ==
    /\ ViewMounted("graph", workflowStep, activeTab)
    /\ lastEvent' = EventCalls("ProcessGraph.handleReset", dagreFails,
                               IF cyRef THEN layoutCalls(dagreFails) \o <<"fit">>
                               ELSE <<>>)
    /\ UNCHANGED <<appVariant, appVars, uploadVars, mapperVars, panelVars, viewVars,
                   envVars>>

\* the transition a click on a bottleneck row reports
Bottleneck == [source |-> "A", target |-> "B"]

\* handleBottleneckSelect(source, target): console.log only
handleBottleneckSelect(source, target) ==
    /\ Populated("bottlenecks")
    /\ lastEvent' = Event("handleBottleneckSelect")
    /\ UNCHANGED <<appVariant, appVars, uploadVars, mapperVars, panelVars, viewVars,
                   envVars>>

\* handleApplyFilters(filters): the indicator, the criteria, a 500 ms timer
handleApplyFilters(filters) ==
    /\ filterLoading' = TRUE
    /\ activeFilters' = Some(filters)
    /\ filterTimers' = filterTimers + 1

\* handleClearFilters without its setActiveFilters(null)
handleClearFilters_KeepsFilters ==
    UNCHANGED <<activeFilters, filterLoading, filterTimers>>

\* handleClearFilters()
handleClearFilters ==
    /\ activeFilters' = Null
    /\ UNCHANGED <<filterLoading, filterTimers>>

\* the timer's callback without its setFilterLoading(false)
filterTimeout_KeepsLoading ==
    /\ filterTimers > 0
    /\ filterTimers' = filterTimers - 1
    /\ lastEvent' = Event("filterTimeout")
    /\ UNCHANGED <<appVariant, sessionId, uploadStats, selectedVariant, selectedNode,
                   activeFilters, filterLoading, activeTab, workflowStep, uploadVars,
                   mapperVars, panelVars, viewVars, envVars>>

\* the timer of handleApplyFilters fires: setFilterLoading(false)
filterTimeout ==
    /\ filterTimers > 0
    /\ filterTimers' = filterTimers - 1
    /\ filterLoading' = FALSE
    /\ lastEvent' = Event("filterTimeout")
    /\ UNCHANGED <<appVariant, sessionId, uploadStats, selectedVariant, selectedNode,
                   activeFilters, activeTab, workflowStep, uploadVars, mapperVars,
                   panelVars, viewVars, envVars>>

\* handleReset without its setActiveFilters(null)
handleReset_KeepsFilters ==
    /\ sessionId' = Null
    /\ uploadStats' = Null
    /\ workflowStep' = "upload"
    /\ activeTab' = "graph"
    /\ selectedNode' = Null
    /\ selectedVariant' = Null
    /\ UNCHANGED <<activeFilters, filterLoading, filterTimers>>

\* a reset that keeps the upload statistics
handleReset_KeepsStats ==
    /\ sessionId' = Null
    /\ workflowStep' = "upload"
    /\ activeTab' = "graph"
    /\ selectedNode' = Null
    /\ selectedVariant' = Null
    /\ activeFilters' = Null
    /\ UNCHANGED <<uploadStats, filterLoading, filterTimers>>

\* handleReset(), the state it sets
handleReset ==
    /\ sessionId' = Null
    /\ uploadStats' = Null
    /\ workflowStep' = "upload"
    /\ activeTab' = "graph"
    /\ selectedNode' = Null
    /\ selectedVariant' = Null
    /\ activeFilters' = Null
    /\ UNCHANGED <<filterLoading, filterTimers>>

\* the "New Analysis" button of the dashboard header
NewAnalysis ==
    /\ appVariant = "workflow"
    /\ workflowStep = "dashboard"
    /\ handleReset
    /\ CommitViews(sessionId', workflowStep', activeTab')
    /\ CommitPanel(uploadStats', workflowStep')
    /\ lastEvent' = EventHad("NewAnalysis")
    /\ UNCHANGED <<appVariant, uploadVars, mapperVars, envVars>>

\* WorkflowStepper: the steps in order, and which of them can be clicked
stepIndex(step) == CASE step = "upload" -> 0 [] step = "mapping" -> 1
                     [] step = "dashboard" -> 2

\* every step clickable
isClickable_Always(step) == TRUE

isClickable(step) == stepIndex(step) < stepIndex(workflowStep)

\* handleStepClick(step), raised by a click on a completed step
handleStepClick(step) ==
    /\ appVariant = "workflow"
    /\ isClickable(step)
    /\ IF step = "upload"
       THEN /\ handleReset
            /\ CommitViews(sessionId', workflowStep', activeTab')
            /\ CommitPanel(uploadStats', workflowStep')
       ELSE UNCHANGED <<appVars, panelVars, viewVars>>
    /\ lastEvent' = EventStep("handleStepClick", step)
    /\ UNCHANGED <<appVariant, uploadVars, mapperVars, envVars>>

\* <TabNavigation onTabChange={setActiveTab} disabled={!sessionId}>
setActiveTab(tab) ==
    /\ appVariant = "workflow"
    /\ workflowStep = "dashboard"
    /\ sessionId # Null
    /\ activeTab' = tab
    /\ CommitViews(sessionId, workflowStep, tab)
    /\ lastEvent' = Event("setActiveTab")
    /\ UNCHANGED <<appVariant, sessionId, uploadStats, selectedVariant, selectedNode,
                   activeFilters, filterLoading, filterTimers, workflowStep,
                   uploadVars, mapperVars, panelVars, envVars>>

----------------------------------------------------------------------------
(* FilterSidebar *)

Dates == {"", "2024-01-01"}

\* const hasActiveFilters = dateStart || dateEnd || excludedActivities.size > 0
hasActiveFilters == dateStart # "" \/ dateEnd # "" \/ Cardinality(excludedActivities) > 0

\* the Apply button without its disabled condition
ApplyEnabled_Always == SidebarMounted(uploadStats, workflowStep)

\* the Apply and the Clear button: disabled={isLoading || !hasActiveFilters}
ApplyEnabled ==
    SidebarMounted(uploadStats, workflowStep) /\ ~(filterLoading \/ ~hasActiveFilters)

ClearEnabled ==
    SidebarMounted(uploadStats, workflowStep) /\ ~(filterLoading \/ ~hasActiveFilters)

\* the FilterCriteria that handleApply builds
buildFilters ==
    [date_start |-> IF dateStart # "" THEN Some(dateStart) ELSE Null,
     date_end |-> IF dateEnd # "" THEN Some(dateEnd) ELSE Null,
     activities |-> Null,
     exclude_activities |-> IF Cardinality(excludedActivities) > 0
                            THEN Some(excludedActivities) ELSE Null]

setDateStart(d) ==
    /\ SidebarMounted(uploadStats, workflowStep)
    /\ dateStart' = d
    /\ lastEvent' = Event("setDateStart")
    /\ UNCHANGED <<appVariant, appVars, uploadVars, mapperVars, dateEnd,
                   excludedActivities, viewVars, envVars>>

setDateEnd(d) ==
    /\ SidebarMounted(uploadStats, workflowStep)
    /\ dateEnd' = d
    /\ lastEvent' = Event("setDateEnd")
    /\ UNCHANGED <<appVariant, appVars, uploadVars, mapperVars, dateStart,
                   excludedActivities, viewVars, envVars>>

\* toggleActivity that only adds
toggleActivity_AddOnly(activity) ==
    /\ SidebarMounted(uploadStats, workflowStep)
    /\ activity \in Get(uploadStats).activities
    /\ excludedActivities' = excludedActivities \cup {activity}
    /\ lastEvent' = EventToggle("toggleActivity", activity)
    /\ UNCHANGED <<appVariant, appVars, uploadVars, mapperVars, dateStart, dateEnd,
                   viewVars, envVars>>

\* toggleActivity(activity), on a checkbox of uploadStats.activities
toggleActivity(activity) ==
    /\ SidebarMounted(uploadStats, workflowStep)
    /\ activity \in Get(uploadStats).activities
    /\ excludedActivities' =
          IF activity \in excludedActivities
          THEN excludedActivities \ {activity}
          ELSE excludedActivities \cup {activity}
    /\ lastEvent' = EventToggle("toggleActivity", activity)
    /\ UNCHANGED <<appVariant, appVars, uploadVars, mapperVars, dateStart, dateEnd,
                   viewVars, envVars>>

\* handleApply: onApplyFilters(filters); the graph's effect does not depend on
\* the filters, so no view refetches
handleApply ==
    /\ ApplyEnabled
    /\ handleApplyFilters(buildFilters)
    /\ lastEvent' = Event("handleApply")
    /\ UNCHANGED <<appVariant, sessionId, uploadStats, selectedVariant, selectedNode,
                   activeTab, workflowStep, uploadVars, mapperVars, panelVars,
                   viewVars, envVars>>

\* handleClear: the panel's inputs reset, then onClearFilters()
handleClear ==
    /\ ClearEnabled
    /\ dateStart' = ""
    /\ dateEnd' = ""
    /\ excludedActivities' = {}
    /\ handleClearFilters
    /\ lastEvent' = EventHad("handleClear")
    /\ UNCHANGED <<appVariant, sessionId, uploadStats, selectedVariant, selectedNode,
                   activeTab, workflowStep, uploadVars, mapperVars, viewVars, envVars>>

----------------------------------------------------------------------------
(* The views' fetches: the continuation after the await *)

\* try block after a response that is ok, then finally
fetchResolved(v, data) ==
    /\ data.session_id \in viewInFlight[v]
    /\ viewInFlight' = [viewInFlight EXCEPT ![v] = @ \ {data.session_id}]
    /\ viewData' = [viewData EXCEPT ![v] = Some(data)]
    /\ loading' = [loading EXCEPT ![v] = FALSE]
    /\ UNCHANGED viewError
    /\ lastEvent' = Event("fetchResolved")
    /\ UNCHANGED <<appVariant, appVars, uploadVars, mapperVars, panelVars, envVars>>
    \* a CytoscapeComponent that this render mounts passes its instance to
    \* setCytoscape, which stores it in the ref
    /\ cyRef' = (cyRef \/ (v = "graph" /\ Populated("graph")'))

\* the catch block storing its error in every view
fetchRejected_Propagates(v, sid) ==
    /\ sid \in viewInFlight[v]
    /\ viewInFlight' = [viewInFlight EXCEPT ![v] = @ \ {sid}]
    /\ viewError' = [w \in Views |-> Some("Failed to fetch")]
    /\ loading' = [loading EXCEPT ![v] = FALSE]
    /\ UNCHANGED <<viewData, cyRef>>
    /\ lastEvent' = Event("fetchRejected")
    /\ UNCHANGED <<appVariant, appVars, uploadVars, mapperVars, panelVars, envVars>>

\* catch block, then finally
fetchRejected(v, sid) ==
    /\ sid \in viewInFlight[v]
    /\ viewInFlight' = [viewInFlight EXCEPT ![v] = @ \ {sid}]
    /\ viewError' = [viewError EXCEPT ![v] = Some("Failed to fetch")]
    /\ loading' = [loading EXCEPT ![v] = FALSE]
    /\ UNCHANGED <<viewData, cyRef>>
    /\ lastEvent' = Event("fetchRejected")
    /\ UNCHANGED <<appVariant, appVars, uploadVars, mapperVars, panelVars, envVars>>

----------------------------------------------------------------------------
(* The whole program *)

SessionIds == 1..MaxSessions

\* FileUpload and ColumnMapper: every file, every answer, every edit
UploadStep ==
    \/ onDrop
    \/ \E resp \in PreviewResponses(nextTempId) : onDropResolved(resp)
    \/ \E e \in TransportErrors : onDropRejected(e)
    \/ handleMappingCancel
    \/ \E val \in Options : setCaseIdColumn(val)
    \/ \E val \in Options : setActivityColumn(val)
    \/ \E val \in Options : setTimestampColumn(val)
    \/ handleSubmit
    \/ handleSubmitResolved
    \/ \E e \in TransportErrors : handleSubmitRejected(e)

\* reset and navigation of the workflow App
NavStep ==
    \/ NewAnalysis
    \/ \E step \in {"upload", "mapping", "dashboard"} : handleStepClick(step)
    \/ \E tab \in Views : setActiveTab(tab)

\* clicks on a node and on a variant row
SelectStep ==
    \/ \E variant \in VariantRows : handleVariantSelect(variant)
    \/ tap(ActivityNode)

\* the filter panel's start date, Apply, Clear, and the indicator's timer
DateFilterStep ==
    \/ \E d \in Dates : setDateStart(d)
    \/ handleApply
    \/ handleClear
    \/ filterTimeout

\* the filter panel's other inputs
FilterStep ==
    \/ DateFilterStep
    \/ \E d \in Dates : setDateEnd(d)
    \/ \E a \in Activities : toggleActivity(a)

\* the answers to the requests of the views V
FetchFor(V) ==
    \/ \E v \in V \ {"graph"}, sid \in SessionIds :
          \E data \in Payloads(sid) : fetchResolved(v, data)
    \/ \E v \in V \cap {"graph"}, sid \in SessionIds :
          \E data \in GraphPayloads(sid, WellFormedGraphs) : fetchResolved(v, data)
    \/ \E v \in V, sid \in SessionIds : fetchRejected(v, sid)

FetchStep == FetchFor(Views)

\* the graph: every response, a tap on every node, the layout handlers
GraphStep ==
    \/ \E sid \in SessionIds :
          \E data \in GraphPayloads(sid, Graphs) : fetchResolved("graph", data)
    \/ \E sid \in SessionIds : fetchRejected("graph", sid)
    \/ \E node \in GraphNodes : tap(node)
    \/ \E dagreFails \in BOOLEAN : cyReady(dagreFails)
    \/ \E dagreFails \in BOOLEAN : ProcessGraph_handleReset(dagreFails)

Next == UploadStep \/ NavStep \/ SelectStep \/ FilterStep \/ FetchStep \/ GraphStep

\* the whole front end
Spec == Init /\ [][Next]_vars

\* The upload orchestrator with the App's reset and navigation.  The steps left
\* out change none of the variables these steps read or write (the upload,
\* mapper and backend variables, appVariant and workflowStep).
UploadNext == UploadStep \/ NavStep

UploadSpec == Init /\ [][UploadNext]_vars

\* The user drops only the file whose mapping the heuristic completes and
\* confirms it as proposed, and no upload request fails.
QuickUploadStep ==
    \/ onDrop
    \/ onDropResolved(PreviewResponse(CompleteFile, nextTempId))
    \/ handleSubmit
    \/ handleSubmitResolved

\* The column mapper mounted for every header: a file is dropped while no
\* other is in flight, the preview answers with any header of up to MaxColumns
\* columns, the mapping is cancelled.
DetectNext ==
    \/ (previewInFlight = 0 /\ onDrop)
    \/ \E h \in Headers :
          onDropResolved(PreviewResponse([columns |-> h, preview_rows |-> <<>>],
                                         nextTempId))
    \/ handleMappingCancel

DetectSpec == Init /\ [][DetectNext]_vars

\* The session store with its dependents: the filter panel (start date only),
\* the selections, and the two views a selection comes from.
StoreNext ==
    QuickUploadStep \/ NavStep \/ DateFilterStep \/ SelectStep
        \/ FetchFor({"graph", "variants"})

StoreSpec == Init /\ [][StoreNext]_vars

\* One session with everything that reads it: the four views' fetches, the
\* clicks on a node, a variant and a bottleneck, the filter panel, reset and
\* navigation.
ReadersNext ==
    \/ (nextSessionId = 1 /\ QuickUploadStep)
    \/ NavStep
    \/ DateFilterStep
    \/ SelectStep
    \/ handleBottleneckSelect(Bottleneck.source, Bottleneck.target)
    \/ FetchStep

ReadersSpec == Init /\ [][ReadersNext]_vars

\* One session's process graph: its fetch with every response, the taps and
\* the layout handlers, with reset and navigation.
GraphNext == (nextSessionId = 1 /\ QuickUploadStep) \/ NavStep \/ GraphStep

GraphSpec == Init /\ [][GraphNext]_vars

\* The filter panel with all its inputs, over the sessions, reset and
\* navigation.
PanelNext == QuickUploadStep \/ NavStep \/ FilterStep

PanelSpec == Init /\ [][PanelNext]_vars

\* The loading indicator with what can interleave before its timer fires: new
\* uploads, reset, tab changes, edits of the start date, Apply and Clear, and
\* the graph's fetch outcomes.  A timer set with setTimeout fires, and App is
\* never unmounted, so the callback always runs: weak fairness of filterTimeout.
IndicatorNext ==
    QuickUploadStep \/ NavStep \/ DateFilterStep \/ FetchFor({"graph"})

IndicatorSpec == Init /\ [][IndicatorNext]_vars /\ WF_vars(filterTimeout)

\* The sessions and the four views' fetches.
FetchNext == QuickUploadStep \/ NavStep \/ FetchStep

FetchSpec == Init /\ [][FetchNext]_vars

----------------------------------------------------------------------------
(* Session replacement *)

\* C1: every step that makes another session the active one leaves the applied
\* filters, the selected node and the selected variant empty in the state it
\* commits: no rendered state pairs the new session id with a filter or a
\* selection made under the previous session.
C1_ReplaceClearsDependents ==
    [][ (sessionId' # sessionId /\ sessionId' # Null)
            => /\ activeFilters' = Null
               /\ selectedNode' = Null
               /\ selectedVariant' = Null ]_vars

\* a session was replaced while filters were applied and a node and a variant
\* were selected, and the new session is shown without them
C1_Witness ==
    /\ lastEvent.name = "handleSubmitResolved"
    /\ lastEvent.had = {"sessionId", "activeFilters", "selectedNode", "selectedVariant"}
    /\ sessionId = Some(2)
    /\ activeFilters = Null
    /\ selectedNode = Null
    /\ selectedVariant = Null

\* C2 as claimed: a step that changes the applied filters while a session is
\* active and the graph is on screen leaves the graph loading, with a discover
\* request for the session in flight.
C2_FilterChangeRefetchesGraph ==
    [][ ( /\ activeFilters' # activeFilters
          /\ sessionId # Null
          /\ sessionId' = sessionId
          /\ ViewMounted("graph", workflowStep, activeTab)
          /\ ViewMounted("graph", workflowStep', activeTab') )
            => /\ loading'["graph"]
               /\ sessionId \subseteq viewInFlight'["graph"] ]_vars

\* C3 as claimed: the data a view holds is never replaced by data of an
\* earlier-triggered request (session ids are issued in trigger order).
C3_LaterRequestWins ==
    [][ \A v \in Views :
            (viewData[v] # Null /\ viewData'[v] # Null)
                => Get(viewData'[v]).session_id >= Get(viewData[v]).session_id ]_vars

\* C4 as claimed: the answer to a request made for a session that is no longer
\* the active one changes neither the view's data, nor its error, nor its
\* loading flag.
C4_LateResponseIgnored ==
    [][ \A v \in Views : \A sid \in viewInFlight[v] \ viewInFlight'[v] :
            (lastEvent'.name \in {"fetchResolved", "fetchRejected"}
                /\ sessionId # Some(sid))
                => /\ viewData'[v] = viewData[v]
                   /\ viewError'[v] = viewError[v]
                   /\ loading'[v] = loading[v] ]_vars

\* C5 as claimed: with a session active, a view shows as populated content only
\* data fetched for that session, and when a session has just been created the
\* filter panel's inputs, the applied filters and the selections are empty.
C5_NewSessionInvalidatesAll ==
    /\ \A v \in Views :
          Populated(v) => Some(Get(viewData[v]).session_id) = sessionId
    /\ lastEvent.name = "handleSubmitResolved"
          => /\ dateStart = "" /\ dateEnd = "" /\ excludedActivities = {}
             /\ activeFilters = Null
             /\ selectedNode = Null
             /\ selectedVariant = Null

----------------------------------------------------------------------------
(* The upload orchestrator *)

\* C6: a confirm request is sent only by a step that starts with the three
\* columns set and no submission in progress, and it carries those columns;
\* the confirm action is enabled exactly when the mapper is shown, the three
\* columns are set and no submission is in progress, whatever the row count.
C6_SubmitGatedByMapping ==
    /\ [](SubmitEnabled <=> /\ previewData # Null
                            /\ caseIdColumn # Unset
                            /\ activityColumn # Unset
                            /\ timestampColumn # Unset
                            /\ ~isLoading
                            /\ submitInFlight = Null)
    /\ [][ (submitInFlight' # Null /\ submitInFlight' # submitInFlight)
            => /\ caseIdColumn # Unset
               /\ activityColumn # Unset
               /\ timestampColumn # Unset
               /\ ~isLoading
               /\ submitInFlight = Null
               /\ Get(submitInFlight').case_id_column = caseIdColumn
               /\ Get(submitInFlight').activity_column = activityColumn
               /\ Get(submitInFlight').timestamp_column = timestampColumn ]_vars

\* a complete mapping of a preview without rows has been submitted
C6_Witness ==
    /\ lastEvent.name = "handleSubmit"
    /\ submitInFlight # Null
    /\ previewData # Null
    /\ Get(previewData).row_count = 0
    /\ Get(submitInFlight).timestamp_column = Col_x

\* C7: the step that handles a failed submission keeps the preview and the three
\* selections, sets an error, clears the submitting flag, creates no session
\* and changes nothing of the session store; afterwards Cancel is enabled and
\* the confirm action is enabled with the selections kept.
C7_FailedSubmitKeepsMapping ==
    [][ lastEvent'.name = "handleSubmitRejected"
            => /\ previewData # Null
               /\ previewData' = previewData
               /\ caseIdColumn' = caseIdColumn
               /\ activityColumn' = activityColumn
               /\ timestampColumn' = timestampColumn
               /\ error' # Null
               /\ ~isLoading'
               /\ submitInFlight' = Null
               /\ appVars' = appVars
               /\ nextSessionId' = nextSessionId
               /\ confirmedTempIds' = confirmedTempIds
               /\ MapperMounted'
               /\ (isValid => SubmitEnabled') ]_vars

\* a submission failed while a session was active: the mapper shows the error
\* of the response, the selections are complete, the session is still there
C7_Witness ==
    /\ lastEvent.name = "handleSubmitRejected"
    /\ sessionId = Some(1)
    /\ previewData # Null
    /\ error = Some("Invalid file")
    /\ isValid
    /\ ~isLoading

\* C8 as claimed: the step that handles a failed preview upload leaves no
\* preview stored, the uploading flag cleared and the dropzone enabled, appends
\* an error entry whose message is the payload's detail when there is one and
\* the transport error's message otherwise, and creates no session.
C8_FailedPreviewReturnsToIdle ==
    [][ lastEvent'.name = "onDropRejected"
            => /\ previewData' = Null
               /\ ~isUploading'
               /\ DropzoneEnabled'
               /\ Len(logs') = Len(logs) + 1
               /\ logs'[Len(logs')].type = "error"
               /\ logs'[Len(logs')].arg =
                     (IF lastEvent'.err.detail # "" THEN lastEvent'.err.detail
                      ELSE lastEvent'.err.message)
               /\ sessionId' = sessionId
               /\ nextSessionId' = nextSessionId ]_vars

\* C9: a preview on screen was never confirmed, no cancelled preview was ever
\* confirmed, and every step that installs a session leaves no preview stored.
C9_PendingUploadGoneAtSession ==
    /\ [](/\ previewData # Null => Get(previewData).temp_id \notin confirmedTempIds
          /\ cancelledTempIds \cap confirmedTempIds = {})
    /\ [][ (sessionId' # sessionId /\ sessionId' # Null) => previewData' = Null ]_vars

\* in the one-page App a preview was cancelled, another confirmed, and the
\* session of the confirmed one is installed with no preview left
C9_Witness ==
    /\ appVariant = "single"
    /\ lastEvent.name = "handleSubmitResolved"
    /\ cancelledTempIds # {}
    /\ confirmedTempIds # {}
    /\ sessionId # Null
    /\ previewData = Null

\* C10: the step that cancels the mapping leaves no preview, an empty log, the
\* uploading flag clear and the dropzone enabled, sends no confirm request and
\* changes nothing of the session store.
C10_CancelDiscardsPreviewAndLog ==
    [][ lastEvent'.name = "handleMappingCancel"
            => /\ previewData # Null
               /\ Len(logs) > 0
               /\ previewData' = Null
               /\ logs' = <<>>
               /\ ~isUploading'
               /\ DropzoneEnabled'
               /\ submitInFlight' = Null
               /\ appVars' = appVars
               /\ nextSessionId' = nextSessionId
               /\ confirmedTempIds' = confirmedTempIds ]_vars

\* a mapping was cancelled while a session was active: the upload is idle
\* again and the session is still there
C10_Witness ==
    /\ lastEvent.name = "handleMappingCancel"
    /\ sessionId = Some(1)
    /\ previewData = Null
    /\ logs = <<>>
    /\ cancelledTempIds = {2}

----------------------------------------------------------------------------
(* Reset *)

\* C11: on the dashboard the New Analysis button can always be pressed, and
\* every step that is the reset (the button, or a click on the Upload step of
\* the stepper) moves the workflow to the upload stage and leaves the session
\* id, the statistics, the applied filters, the selected node and the selected
\* variant empty and the active tab at graph.
C11_ResetDestroysSession ==
    /\ []((appVariant = "workflow" /\ workflowStep = "dashboard") => ENABLED NewAnalysis)
    /\ [][ (lastEvent'.name = "NewAnalysis"
              \/ (workflowStep = "dashboard" /\ workflowStep' # "dashboard"))
            => /\ workflowStep = "dashboard"
               /\ workflowStep' = "upload"
               /\ sessionId' = Null
               /\ uploadStats' = Null
               /\ activeFilters' = Null
               /\ selectedNode' = Null
               /\ selectedVariant' = Null
               /\ activeTab' = "graph" ]_vars

\* New Analysis was pressed while a session was active with filters applied
\* and a node and a variant selected, and everything is gone
C11_Witness ==
    /\ lastEvent.name = "NewAnalysis"
    /\ lastEvent.had = {"sessionId", "activeFilters", "selectedNode", "selectedVariant"}
    /\ workflowStep = "upload"
    /\ sessionId = Null
    /\ uploadStats = Null
    /\ activeFilters = Null
    /\ selectedNode = Null
    /\ selectedVariant = Null
    /\ activeTab = "graph"

----------------------------------------------------------------------------
(* The column-mapping heuristic *)

\* pattern p is a case-insensitive substring of column name c
MatchesAt(c, p, off) == \A j \in 1..Len(p) : LowerChar(c[off + j]) = p[j]
Matches(c, p) == \E off \in 0..(Len(c) - Len(p)) : MatchesAt(c, p, off)

\* the reference result for one role: the first pattern, in list order, that
\* matches some column decides, and the first column it matches is assigned
Reference(columns, patterns) ==
    LET hitPatterns == {k \in 1..Len(patterns) :
                           \E i \in 1..Len(columns) : Matches(columns[i], patterns[k])}
    IN  IF hitPatterns = {} THEN Unset
        ELSE LET k == CHOOSE k \in hitPatterns : \A m \in hitPatterns : k <= m
                 hitColumns == {i \in 1..Len(columns) : Matches(columns[i], patterns[k])}
             IN  columns[CHOOSE i \in hitColumns : \A m \in hitColumns : i <= m]

\* C12: whenever the mapper is mounted for a preview, each of the three roles
\* holds the reference result for the preview's columns: the first column
\* matched by the first matching pattern, or unset when no pattern matches.
C12_HeuristicIsReference ==
    [][ (previewData = Null /\ previewData' # Null)
            => /\ caseIdColumn' = Reference(Get(previewData').columns, casePatterns)
               /\ activityColumn' = Reference(Get(previewData').columns, activityPatterns)
               /\ timestampColumn' =
                     Reference(Get(previewData').columns, timestampPatterns) ]_vars

\* a header whose first two columns match the case pattern "id" and whose third
\* matches the earlier pattern "caseid": the case id is the third column, the
\* activity the column matching "event", the timestamp unset
C12_Witness ==
    /\ lastEvent.name = "onDropResolved"
    /\ previewData # Null
    /\ Get(previewData).columns = <<Col_ID, Col_Event_ID, Col_CaseID>>
    /\ caseIdColumn = Col_CaseID
    /\ activityColumn = Col_Event_ID
    /\ timestampColumn = Unset

----------------------------------------------------------------------------
(* The mapping state *)

\* C13 as claimed: while the mapper is shown, each of the three selections is
\* unset or one of the columns of the preview on screen.
C13_SelectionsAreColumns ==
    previewData # Null
        => \A sel \in {caseIdColumn, activityColumn, timestampColumn} :
              sel = Unset \/ sel \in Options

----------------------------------------------------------------------------
(* The views *)

\* C14 as claimed: every view on screen displays exactly one of the prompt,
\* loading, error, empty and populated states: never two, never none.
C14_OneDisplayStatePerView ==
    \A v \in Views :
        ViewMounted(v, workflowStep, activeTab) => Cardinality(Shown(v)) = 1

----------------------------------------------------------------------------
(* Who writes the session store *)

\* C15: the session id, the statistics and the applied filters change only in
\* steps of the store's own actions (upload success, Apply, Clear, reset); a
\* fetch outcome or a click on a node, a variant or a bottleneck changes none
\* of them, and a failed fetch changes the data and the error of no view but
\* its own.
C15_ViewsOnlyReadStore ==
    /\ [][ (sessionId' # sessionId \/ uploadStats' # uploadStats
              \/ activeFilters' # activeFilters)
            => lastEvent'.name \in {"handleSubmitResolved", "handleApply", "handleClear",
                                    "NewAnalysis", "handleStepClick"} ]_vars
    /\ [][ lastEvent'.name \in {"fetchResolved", "fetchRejected", "tap",
                                "handleVariantSelect", "handleBottleneckSelect"}
            => /\ sessionId' = sessionId
               /\ uploadStats' = uploadStats
               /\ activeFilters' = activeFilters ]_vars
    /\ [][ lastEvent'.name = "fetchRejected"
            => \A v \in Views :
                  viewInFlight'[v] = viewInFlight[v]
                      => viewData'[v] = viewData[v] /\ viewError'[v] = viewError[v] ]_vars

\* a fetch failed in one view while filters were applied and another view held
\* its data without an error
C15_Witness ==
    /\ lastEvent.name = "fetchRejected"
    /\ sessionId = Some(1)
    /\ activeFilters # Null
    /\ \E v, w \in Views :
          /\ viewError[v] # Null
          /\ viewError[w] = Null
          /\ viewData[w] # Null

----------------------------------------------------------------------------
(* Variant selection *)

\* two clicks on variant rows in a row, the second on a variant with the
\* activity sequence of the first
SameVariantTwice ==
    /\ lastEvent.name = "handleVariantSelect"
    /\ lastEvent'.name = "handleVariantSelect"
    /\ Get(lastEvent'.arg).seq = Get(lastEvent.arg).seq

\* a click on a row whose sequence differs from the selection replaces it
SelectReplaces ==
    (lastEvent'.name = "handleVariantSelect"
        /\ (selectedVariant = Null
              \/ Get(selectedVariant).seq # Get(lastEvent'.arg).seq))
        => selectedVariant' = lastEvent'.arg

\* C16 as claimed: from every prior selection, two clicks in a row on variants
\* with the same activity sequence leave no variant selected, and a click on a
\* variant whose sequence differs from the selection replaces the selection.
C16_SelectTwiceIsNone ==
    [][ /\ SameVariantTwice => selectedVariant' = Null
        /\ SelectReplaces ]_vars

\* C16 amended: two clicks in a row on variants with the same activity
\* sequence (the same array object or not) leave no variant selected when the
\* selection before the first click was none or another sequence, and leave
\* the second click's variant selected when that sequence was already selected
\* before the first click; a click on a variant whose sequence differs from the
\* selection replaces the selection.
C16_SelectTwiceToggles ==
    [][ /\ SameVariantTwice
            => selectedVariant' =
                  (IF lastEvent.prior # Null
                        /\ Get(lastEvent.prior).seq = Get(lastEvent.arg).seq
                   THEN lastEvent'.arg
                   ELSE Null)
        /\ SelectReplaces ]_vars

\* a variant was selected while another was, then clicked again through a
\* different array object with the same sequence, and none is selected
C16_Witness ==
    /\ lastEvent.name = "handleVariantSelect"
    /\ lastEvent.prior # Null
    /\ lastEvent.arg # lastEvent.prior
    /\ Get(lastEvent.arg).seq = Get(lastEvent.prior).seq
    /\ Get(lastEvent.arg).seq = <<"A", "B">>
    /\ selectedVariant = Null

----------------------------------------------------------------------------
(* The filter panel *)

\* one of the panel's three inputs is not empty
PanelHasInput == dateStart # "" \/ dateEnd # "" \/ excludedActivities # {}

\* C17: the Apply button is enabled exactly when the panel is shown, one of its
\* inputs (start date, end date, exclusion set) is not empty and the loading
\* indicator is off; every Apply step starts in such a state and hands over
\* criteria in which date_start, date_end and exclude_activities are not all
\* null.
C17_ApplyNeedsAFilter ==
    /\ [](ApplyEnabled <=> /\ SidebarMounted(uploadStats, workflowStep)
                           /\ PanelHasInput
                           /\ ~filterLoading)
    /\ [][ lastEvent'.name = "handleApply"
            => /\ PanelHasInput
               /\ ~filterLoading
               /\ activeFilters' # Null
               /\ ~(/\ Get(activeFilters').date_start = Null
                    /\ Get(activeFilters').date_end = Null
                    /\ Get(activeFilters').exclude_activities = Null) ]_vars

\* Apply was pressed with only an excluded activity set
C17_Witness ==
    /\ lastEvent.name = "handleApply"
    /\ activeFilters # Null
    /\ Get(activeFilters).date_start = Null
    /\ Get(activeFilters).date_end = Null
    /\ Get(activeFilters).exclude_activities = Some({"A"})
    /\ filterLoading

C19_BothOperationsSetIndicator ==
    [][ lastEvent'.name \in {"handleApply", "handleClear"} => filterLoading' ]_vars

----------------------------------------------------------------------------
(* The loading indicator *)

\* C20: whenever the loading indicator is set it is eventually cleared again.
C20_IndicatorEventuallyOff == filterLoading ~> ~filterLoading

\* the indicator was set on the dashboard, the session was reset before the
\* timer fired, and the timer then cleared the indicator on the upload stage
C20_Witness ==
    /\ lastEvent.name = "filterTimeout"
    /\ appVariant = "workflow"
    /\ workflowStep = "upload"
    /\ sessionId = Null
    /\ nextSessionId > 1
    /\ ~filterLoading
    /\ filterTimers = 0

----------------------------------------------------------------------------
(* The exclusion set *)

\* the set S with the membership of x flipped
Flip(S, x) == (S \ {x}) \cup ({x} \ S)

\* two clicks on activity checkboxes in a row
ToggleTwice ==
    /\ lastEvent.name = "toggleActivity"
    /\ lastEvent'.name = "toggleActivity"

\* C21: a toggle flips the membership of its activity and of no other; two
\* toggles of the same activity in a row restore the set found by the first;
\* two toggles of different activities in a row give the set that the same
\* toggles give in the other order.
C21_ToggleFlipsOneMember ==
    [][ /\ lastEvent'.name = "toggleActivity"
            => /\ (Get(lastEvent'.arg) \in excludedActivities'
                      <=> Get(lastEvent'.arg) \notin excludedActivities)
               /\ \A b \in Activities \ lastEvent'.arg :
                     b \in excludedActivities' <=> b \in excludedActivities
        /\ (ToggleTwice /\ lastEvent'.arg = lastEvent.arg)
            => excludedActivities' = Get(lastEvent.prior)
        /\ (ToggleTwice /\ lastEvent'.arg # lastEvent.arg)
            => excludedActivities' =
                  Flip(Flip(Get(lastEvent.prior), Get(lastEvent'.arg)),
                       Get(lastEvent.arg)) ]_vars

\* the checkbox of A was clicked while A and B were excluded: only B is left
C21_Witness ==
    /\ lastEvent.name = "toggleActivity"
    /\ lastEvent.arg = Some("A")
    /\ lastEvent.prior = Some({"A", "B"})
    /\ excludedActivities = {"B"}

----------------------------------------------------------------------------
(* The progress indicator *)

\* C22: every click the stepper passes on is a click on a completed step (one
\* before the current one); a click on the upload step leaves the state of the
\* reset; a click on any other completed step changes nothing of the
\* application's state.
C22_StepperOnlyGoesBackToUpload ==
    [][ lastEvent'.name = "handleStepClick"
            => /\ stepIndex(Get(lastEvent'.arg)) < stepIndex(workflowStep)
               /\ lastEvent'.arg = Some("upload")
                    => /\ workflowStep' = "upload"
                       /\ activeTab' = "graph"
                       /\ sessionId' = Null
                       /\ uploadStats' = Null
                       /\ activeFilters' = Null
                       /\ selectedNode' = Null
                       /\ selectedVariant' = Null
               /\ lastEvent'.arg # Some("upload")
                    => UNCHANGED <<appVariant, appVars, uploadVars, mapperVars,
                                   panelVars, viewVars, envVars>> ]_vars

\* the completed mapping step was clicked on the dashboard, with filters
\* applied and a node selected: the dashboard is as it was
C22_Witness ==
    /\ lastEvent.name = "handleStepClick"
    /\ lastEvent.arg = Some("mapping")
    /\ lastEvent.had = {"sessionId", "activeFilters", "selectedNode"}
    /\ workflowStep = "dashboard"
    /\ sessionId # Null
    /\ activeFilters # Null
    /\ selectedNode # Null

----------------------------------------------------------------------------
(* The process graph *)

\* C23: a tap on a node that is not special makes {id, label, frequency} of
\* that node, and nothing else of it, the selected node; a tap on a special
\* node leaves the selected node as it was.
C23_TapSelectsOnlyActivities ==
    [][ lastEvent'.name = "tap"
          => LET node == Get(lastEvent'.arg)
             IN  /\ ~node.isSpecial
                    => selectedNode' = Some([id |-> node.id, label |-> node.label,
                                             frequency |-> node.frequency])
                 /\ node.isSpecial => selectedNode' = selectedNode ]_vars

\* the start node was tapped while the activity node was selected
C23_Witness ==
    /\ lastEvent.name = "tap"
    /\ lastEvent.arg = Some(StartNode)
    /\ lastEvent.prior = Some([id |-> "A", label |-> "A", frequency |-> 5])
    /\ selectedNode = Some([id |-> "A", label |-> "A", frequency |-> 5])

\* C24: every edge among the elements the graph view hands to the renderer
\* has a source and a target that are ids of nodes among those elements.
C24_RenderedEdgesReferenceNodes ==
    Populated("graph")
        => \A e \in elements.edges :
              /\ \E n \in elements.nodes : n.id = e.source
              /\ \E n \in elements.nodes : n.id = e.target

\* C25: the cy.ready callback and the Reset Layout handler (when the ref
\* holds an instance) both call the dagre layout first and the breadthfirst
\* layout second exactly when dagre threw, and nothing else as a layout; the
\* Reset Layout handler calls fit last, whether or not dagre threw, and the
\* cy.ready callback does not call fit.
C25_LayoutSequence ==
    [][ (lastEvent'.name \in {"cy.ready", "ProcessGraph.handleReset"}
            /\ lastEvent'.prior # Some(<<>>))
          => LET calls == Get(lastEvent'.prior)
                 dagreFails == Get(lastEvent'.arg)
                 isReset == lastEvent'.name = "ProcessGraph.handleReset"
                 layouts == IF isReset THEN SubSeq(calls, 1, Len(calls) - 1) ELSE calls
             IN  /\ Len(layouts) >= 1
                 /\ layouts[1] = "dagre"
                 /\ Len(layouts) = (IF dagreFails THEN 2 ELSE 1)
                 /\ dagreFails => layouts[2] = "breadthfirst"
                 /\ isReset => calls[Len(calls)] = "fit"
                 /\ \A i \in 1..Len(layouts) : layouts[i] # "fit" ]_vars

\* Reset Layout was clicked on a rendered graph and dagre threw
C25_Witness ==
    /\ lastEvent.name = "ProcessGraph.handleReset"
    /\ lastEvent.arg = Some(TRUE)
    /\ lastEvent.prior = Some(<<"dagre", "breadthfirst", "fit">>)
    /\ cyRef
    /\ Populated("graph")

----------------------------------------------------------------------------
(* The workflow stage *)

\* C26: in the workflow App the stage is upload or dashboard, never mapping;
\* it is dashboard exactly when there is a session, and there is a session
\* exactly when there are upload statistics, which then carry its id.
C26_StageFollowsSession ==
    appVariant = "workflow"
        => /\ workflowStep \in {"upload", "dashboard"}
           /\ workflowStep = "dashboard" <=> sessionId # Null
           /\ sessionId # Null <=> uploadStats # Null
           /\ uploadStats # Null => sessionId = Some(Get(uploadStats).session_id)

\* the workflow App is back on the upload stage after a reset of its second session
C26_Witness ==
    /\ appVariant = "workflow"
    /\ lastEvent.name \in {"NewAnalysis", "handleStepClick"}
    /\ "sessionId" \in lastEvent.had
    /\ nextSessionId = 3
    /\ workflowStep = "upload"
    /\ sessionId = Null
    /\ uploadStats = Null

----------------------------------------------------------------------------
(* Clearing applied filters *)

\* C27: whenever filters are applied and the indicator is off, the panel's
\* Clear button is enabled.
C27_AppliedFiltersCanBeCleared ==
    (/\ SidebarMounted(uploadStats, workflowStep)
     /\ activeFilters # Null
     /\ ~filterLoading)
        => ClearEnabled

----------------------------------------------------------------------------
(* The lists' empty state *)

\* C28: a bottleneck or variant list on screen displays its empty state only
\* when it holds a response with zero items computed for the current session,
\* no request for the current session is in flight and no error is stored.
C28_EmptyOnlyAfterCurrentFetch ==
    \A v \in {"bottlenecks", "variants"} :
        (ViewMounted(v, workflowStep, activeTab) /\ "empty" \in Shown(v))
            => /\ sessionId # Null
               /\ viewData[v] # Null
               /\ Some(Get(viewData[v]).session_id) = sessionId
               /\ Get(viewData[v]).items = 0
               /\ ~(sessionId \subseteq viewInFlight[v])
               /\ viewError[v] = Null

----------------------------------------------------------------------------
(* The loading flag *)

\* C29: in every view on screen, while a request for the current session is
\* in flight the loading flag is true.
C29_LoadingWhileCurrentInFlight ==
    \A v \in Views :
        (/\ ViewMounted(v, workflowStep, activeTab)
         /\ sessionId # Null
         /\ sessionId \subseteq viewInFlight[v])
            => loading[v]

----------------------------------------------------------------------------
(* One submission at a time *)

\* C30: while a submission is in flight the mapper is loading and neither
\* Start Analysis nor Cancel is enabled; a submission is sent, and a mapping
\* cancelled, only in a state with no submission in flight; and every step
\* that confirms uploads confirms exactly one, which was neither confirmed nor
\* cancelled before.
C30_OneSubmissionInFlight ==
    /\ [](submitInFlight # Null => isLoading /\ ~SubmitEnabled /\ ~CancelEnabled)
    /\ [][ lastEvent'.name = "handleSubmit"
              => submitInFlight = Null /\ submitInFlight' # Null ]_vars
    /\ [][ lastEvent'.name = "handleMappingCancel" => submitInFlight = Null ]_vars
    /\ [][ confirmedTempIds' # confirmedTempIds
              => \E t \in 1..(MaxDrops + 1) :
                    /\ t \notin confirmedTempIds
                    /\ t \notin cancelledTempIds
                    /\ submitInFlight = Some([temp_id |-> t,
                                              case_id_column |-> Get(submitInFlight).case_id_column,
                                              activity_column |-> Get(submitInFlight).activity_column,
                                              timestamp_column |-> Get(submitInFlight).timestamp_column])
                    /\ confirmedTempIds' = confirmedTempIds \cup {t} ]_vars

\* a submission is in flight for the second preview, after the first was
\* cancelled: the mapper is on screen with both buttons disabled
C30_Witness ==
    /\ lastEvent.name = "handleSubmit"
    /\ submitInFlight # Null
    /\ Get(submitInFlight).temp_id = 2
    /\ cancelledTempIds = {1}
    /\ MapperMounted
    /\ isValid
    /\ isLoading

====
